---- MODULE Spec2Model ----
(***************************************************************************)
(* Fine Offset Electronics sensor decoders (rtl_433 devices/fineoffset.c). *)
(*                                                                         *)
(* The four registered decoders (WH2, WH25, WH51, WH0530) are modelled as  *)
(* operators over one bit row, translated statement by statement from the  *)
(* callbacks; a decode action applies one of them to the row held in the   *)
(* bitbuffer and hands the records it built to the emitter.                *)
(***************************************************************************)
EXTENDS Integers, Sequences, FiniteSets, TLC

VARIABLES
    bits,      \* bitbuffer->bb[0]: the bits of row 0, bits_per_row[0] = Len(bits)
    pc,        \* "ready": a row is waiting for a decoder, "done": a decoder returned
    entry,     \* the registered device whose decode_fn ran last ("" before any)
    ret,       \* the value that decode_fn returned
    emitted,   \* the records handed to decoder_output_data by that invocation
    loc,       \* the locals of the callback that finished the invocation
    base,      \* what the row was before line noise flipped one of its bits
    hist       \* uv_raw and uv_index of the previous successful WH24/WH65B decode

vars == <<bits, pc, entry, ret, emitted, loc, base, hist>>

-----------------------------------------------------------------------------
(* C integer operators on non-negative values *)

RECURSIVE Pow2(_)
Pow2(n) == IF n = 0 THEN 1 ELSE 2 * Pow2(n - 1)

RECURSIVE BitAnd(_, _)
BitAnd(a, b) ==
    IF a = 0 \/ b = 0 THEN 0
    ELSE (a % 2) * (b % 2) + 2 * BitAnd(a \div 2, b \div 2)

RECURSIVE BitOr(_, _)
BitOr(a, b) ==
    IF a = 0 THEN b
    ELSE IF b = 0 THEN a
    ELSE (IF a % 2 = 1 \/ b % 2 = 1 THEN 1 ELSE 0) + 2 * BitOr(a \div 2, b \div 2)

RECURSIVE BitXor(_, _)
BitXor(a, b) ==
    IF a = 0 THEN b
    ELSE IF b = 0 THEN a
    ELSE ((a + b) % 2) + 2 * BitXor(a \div 2, b \div 2)

Shl(a, n) == a * Pow2(n)
Shr(a, n) == a \div Pow2(n)
U8(x) == x % 256

-----------------------------------------------------------------------------
(* Return codes of a decode_fn; success is the literal 1 in the callbacks *)

DECODE_ABORT_LENGTH == 0 - 1
DECODE_ABORT_EARLY  == 0 - 2
DECODE_FAIL_MIC     == 0 - 3
DECODE_FAIL_SANITY  == 0 - 4

-----------------------------------------------------------------------------
(* bitbuffer and checksum helpers of the decoder library *)

\* one bit of the row; the row buffer is zero beyond bits_per_row
Bit(row, i) == IF i < Len(row) THEN row[i + 1] ELSE 0

\* eight bits starting at bit index off, most significant first
ByteAt(row, off) ==
    128 * Bit(row, off) + 64 * Bit(row, off + 1) + 32 * Bit(row, off + 2)
    + 16 * Bit(row, off + 3) + 8 * Bit(row, off + 4) + 4 * Bit(row, off + 5)
    + 2 * Bit(row, off + 6) + Bit(row, off + 7)

\* bb[0][k]
bb(row, k) == ByteAt(row, 8 * k)

bitbuffer_extract_bytes(row, pos, len) ==
    [k \in 1..(len \div 8) |-> ByteAt(row, pos + 8 * (k - 1))]

MatchAt(row, pos, pattern) ==
    /\ pos + Len(pattern) <= Len(row)
    /\ \A j \in 1..Len(pattern) : row[pos + j] = pattern[j]

\* index of the first match of pattern at or after start, the row length if none
bitbuffer_search(row, start, pattern) ==
    LET hits == {p \in start..Len(row) : MatchAt(row, p, pattern)}
    IN  IF hits = {} THEN Len(row)
        ELSE CHOOSE p \in hits : \A q \in hits : p <= q

\* a byte array as the bits the search compares, most significant first
Bits8(v) == [i \in 1..8 |-> (v \div Pow2(8 - i)) % 2]

RECURSIVE BytesToBits(_)
BytesToBits(bytes) ==
    IF bytes = <<>> THEN <<>> ELSE Bits8(Head(bytes)) \o BytesToBits(Tail(bytes))

\* one shift of the remainder: the body of the loop over the bits
crc8_shift(remainder, polynomial) ==
    IF remainder >= 128 THEN BitXor(U8(remainder * 2), polynomial)
    ELSE U8(remainder * 2)

\* the eight shifts made for one message byte
crc8_byte(remainder, polynomial) ==
    LET r1 == crc8_shift(remainder, polynomial)
        r2 == crc8_shift(r1, polynomial)
        r3 == crc8_shift(r2, polynomial)
        r4 == crc8_shift(r3, polynomial)
        r5 == crc8_shift(r4, polynomial)
        r6 == crc8_shift(r5, polynomial)
        r7 == crc8_shift(r6, polynomial)
    IN  crc8_shift(r7, polynomial)

\* crc8_byte for the polynomial every callback passes, tabulated once
crc8_table_0x31 == [r \in 0..255 |-> crc8_byte(r, \h31)]

\* the remainder after the first nBytes bytes of message
RECURSIVE crc8(_, _, _, _)
crc8(message, nBytes, polynomial, init) ==
    IF nBytes = 0 THEN init
    ELSE IF polynomial = \h31
    THEN crc8_table_0x31[BitXor(crc8(message, nBytes - 1, polynomial, init), message[nBytes])]
    ELSE crc8_byte(BitXor(crc8(message, nBytes - 1, polynomial, init), message[nBytes]),
                   polynomial)

RECURSIVE add_bytes(_, _)
add_bytes(message, n) ==
    IF n = 0 THEN 0 ELSE add_bytes(message, n - 1) + message[n]

RECURSIVE xor_bytes(_, _)
xor_bytes(message, n) ==
    IF n = 0 THEN 0 ELSE BitXor(xor_bytes(message, n - 1), message[n])

-----------------------------------------------------------------------------
(* data_make and the emitter *)

\* one argument group of data_make: a key, its DATA_COND condition, its value
Item(key, cond, value) == [key |-> key, cond |-> cond, value |-> value]

\* a DATA_DOUBLE, kept exact as num/den
Dbl(num, den) == [num |-> num, den |-> den]

\* data_make keeps, in order, the groups whose condition is true
data_make(items) ==
    LET on(it) == it.cond
        kept == SelectSeq(items, on)
    IN  [i \in 1..Len(kept) |-> [key |-> kept[i].key, value |-> kept[i].value]]

decoder_output_data(out, data) == Append(out, data)

\* the locals a callback leaves behind; -1 and <<>> stand for "never assigned"
NoLoc ==
    [fn |-> "", b |-> <<>>, bit_offset |-> 0 - 1, type |-> 0 - 1,
     model_num |-> 0 - 1, temp |-> 0, humidity |-> 0 - 1,
     wind_speed_factor |-> Dbl(0, 1), rain_cup_count |-> Dbl(0, 1),
     rainfall_raw |-> 0 - 1, uv_raw |-> 0 - 1, uv_index |-> 0 - 1,
     battery_bars |-> 0 - 1]

Return(code, l) == [ret |-> code, out |-> <<>>, loc |-> l]
Output(data, l) == [ret |-> 1, out |-> decoder_output_data(<<>>, data), loc |-> l]

Keys(data) == {data[i].key : i \in 1..Len(data)}
Has(data, key) == key \in Keys(data)
Get(data, key) == data[CHOOSE i \in 1..Len(data) : data[i].key = key].value

-----------------------------------------------------------------------------
(* fineoffset_WH2_callback *)

MODEL_WH2  == 2
MODEL_WH2A == 3
MODEL_WH5  == 5
MODEL_RB   == 6
MODEL_TP   == 7

\* the chain with the Telldus branch extracting 48 bits as the WH2A branch does
WH2_select_tp48(row) ==
    IF Len(row) = 48 /\ bb(row, 0) = \hFF THEN <<MODEL_WH2, 8, 40>>
    ELSE IF Len(row) = 55 /\ bb(row, 0) = \hFE THEN <<MODEL_WH2A, 7, 48>>
    ELSE IF Len(row) = 47 /\ bb(row, 0) = \hFE THEN <<MODEL_WH5, 7, 40>>
    ELSE IF Len(row) = 49 /\ bb(row, 0) = \hFF /\ BitAnd(bb(row, 1), \h80) = \h80
         THEN <<MODEL_TP, 9, 48>>
    ELSE <<>>

\* the if/else-if chain choosing the model: <<model_num, extraction offset, bits>>
WH2_select(row) ==
    IF Len(row) = 48 /\ bb(row, 0) = \hFF THEN <<MODEL_WH2, 8, 40>>
    ELSE IF Len(row) = 55 /\ bb(row, 0) = \hFE THEN <<MODEL_WH2A, 7, 48>>
    ELSE IF Len(row) = 47 /\ bb(row, 0) = \hFE THEN <<MODEL_WH5, 7, 40>>
    ELSE IF Len(row) = 49 /\ bb(row, 0) = \hFF /\ BitAnd(bb(row, 1), \h80) = \h80
         THEN <<MODEL_TP, 9, 40>>
    ELSE <<>>

\* the temperature with the 12 bit raw value read as two's complement
WH2_temp_twos(raw, bits_per_row, user_data) ==
    IF bits_per_row # 47 \/ user_data # 0
    THEN IF BitAnd(raw, \h800) # 0 THEN raw - \h1000 ELSE raw
    ELSE raw - 400

\* int16_t temp, from the 12 bit raw value
WH2_temp(raw, bits_per_row, user_data) ==
    IF bits_per_row # 47 \/ user_data # 0
    THEN IF BitAnd(raw, \h800) # 0 THEN 0 - BitAnd(raw, \h7FF) ELSE raw
    ELSE raw - 400

WH2_humidity_cond(humidity) == humidity # \hFF

fineoffset_WH2_callback(row) ==
    LET sel == WH2_select(row)
    IN  IF sel = <<>> THEN Return(DECODE_ABORT_LENGTH, [NoLoc EXCEPT !.fn = "WH2"])
        ELSE
        LET model_num == sel[1]
            user_data == 0
            ext == bitbuffer_extract_bytes(row, sel[2], sel[3])
            \* uint8_t b[6] = {0}
            b == [k \in 1..6 |-> IF k <= Len(ext) THEN ext[k] ELSE 0]
            l0 == [NoLoc EXCEPT !.fn = "WH2", !.b = b, !.bit_offset = sel[2],
                                !.model_num = model_num]
        IN  IF b[5] # crc8(b, 4, \h31, 0) THEN Return(DECODE_FAIL_MIC, l0)
            ELSE
            LET type == Shr(b[1], 4)
            IN  IF type # 4 THEN Return(DECODE_FAIL_SANITY, l0)
                ELSE
                LET id == BitOr(Shl(BitAnd(b[1], \h0F), 4), Shr(BitAnd(b[2], \hF0), 4))
                    raw == BitOr(Shl(BitAnd(b[2], \h0F), 8), b[3])
                    temp == WH2_temp(raw, Len(row), user_data)
                    temperature == Dbl(temp, 10)
                    humidity == b[4]
                    data == data_make(<<
                        Item("model", model_num = MODEL_WH2, "Fineoffset-WH2"),
                        Item("model", model_num = MODEL_WH2A, "Fineoffset-WH2A"),
                        Item("model", model_num = MODEL_WH5, "Fineoffset-WH5"),
                        Item("model", model_num = MODEL_RB, "Rosenborg-66796"),
                        Item("model", model_num = MODEL_TP, "Fineoffset-TelldusProove"),
                        Item("id", TRUE, id),
                        Item("temperature_C", TRUE, temperature),
                        Item("humidity", WH2_humidity_cond(humidity), humidity),
                        Item("mic", TRUE, "CRC") >>)
                IN  Output(data, [l0 EXCEPT !.temp = temp, !.humidity = humidity])

-----------------------------------------------------------------------------
(* fineoffset_WH24_callback *)

MODEL_WH24  == 24
MODEL_WH65B == 65

\* uint8_t const preamble[] = {0xAA, 0x2D, 0xD4}
preamble == <<\hAA, \h2D, \hD4>>

\* the unsigned comparison made with <= in place of <
UnsignedLess_le(x, k) == IF x < 0 THEN FALSE ELSE x <= k

\* x < k in unsigned arithmetic, x being a difference of unsigned values: a
\* negative difference wraps to 2^32 + x (2^64 + x where size_t has 64 bits),
\* which is not below any k the callbacks use
UnsignedLess(x, k) == IF x < 0 THEN FALSE ELSE x < k

\* bitbuffer_search(...) + sizeof(preamble) * 8
FindPackage(row) ==
    bitbuffer_search(row, 0, BytesToBits(preamble)) + Len(preamble) * 8

\* the first validation: the row lengths the decoder accepts
WH24_length_ok_to216(bits_per_row) == ~(bits_per_row < 190 \/ bits_per_row > 216)

WH24_length_ok(bits_per_row) == ~(bits_per_row < 190 \/ bits_per_row > 215)

\* the classification with the index compared by <= 61
WH24_type_le61(bits_per_row, bit_offset) ==
    IF UnsignedLess(bits_per_row - bit_offset - 17 * 8, 8)
    THEN IF bit_offset <= 61 THEN MODEL_WH24 ELSE MODEL_WH65B
    ELSE MODEL_WH65B

\* the classification heuristics
WH24_type(bits_per_row, bit_offset) ==
    IF UnsignedLess(bits_per_row - bit_offset - 17 * 8, 8)
    THEN IF bit_offset < 61 THEN MODEL_WH24 ELSE MODEL_WH65B
    ELSE MODEL_WH65B

WH24_wind_speed_factor(type) ==
    IF type = MODEL_WH24 THEN Dbl(112, 100) ELSE Dbl(51, 100)

WH24_rain_cup_count(type) ==
    IF type = MODEL_WH24 THEN Dbl(3, 10) ELSE Dbl(254, 1000)

uvi_upper == <<432, 851, 1210, 1570, 2017, 2450, 2761, 3100, 3512, 3918, 4277, 4650, 5029>>

\* the loop with the threshold compared by <=
RECURSIVE WH24_uv_loop_le(_, _)
WH24_uv_loop_le(uv_index, uv_raw) ==
    IF uv_index < 13 /\ uvi_upper[uv_index + 1] <= uv_raw
    THEN WH24_uv_loop_le(uv_index + 1, uv_raw)
    ELSE uv_index

\* while (uv_index < 13 && uvi_upper[uv_index] < uv_raw) ++uv_index;
RECURSIVE WH24_uv_loop(_, _)
WH24_uv_loop(uv_index, uv_raw) ==
    IF uv_index < 13 /\ uvi_upper[uv_index + 1] < uv_raw
    THEN WH24_uv_loop(uv_index + 1, uv_raw)
    ELSE uv_index

WH24_uv_index(uv_raw) == WH24_uv_loop(0, uv_raw)

WH24_uv_cond(uv_raw) == uv_raw # \hFFFF

WH24_humidity_cond(humidity) == humidity # \hFF

\* the rain count with the byte at the lower position as the low-order byte
WH24_rainfall_raw_le(b) == BitOr(Shl(b[10], 8), b[9])

\* int rainfall_raw = b[8] << 8 | b[9]
WH24_rainfall_raw(b) == BitOr(Shl(b[9], 8), b[10])

fineoffset_WH24_callback(row) ==
    LET l0 == [NoLoc EXCEPT !.fn = "WH24"]
    IN  IF ~WH24_length_ok(Len(row)) THEN Return(DECODE_ABORT_LENGTH, l0)
        ELSE
        LET bit_offset == FindPackage(row)
            l1 == [l0 EXCEPT !.bit_offset = bit_offset]
        IN  IF bit_offset + 17 * 8 > Len(row) THEN Return(DECODE_ABORT_LENGTH, l1)
            ELSE
            LET type == WH24_type(Len(row), bit_offset)
                b == bitbuffer_extract_bytes(row, bit_offset, 17 * 8)
                l2 == [l1 EXCEPT !.type = type, !.b = b]
            IN  IF b[1] # \h24 THEN Return(DECODE_FAIL_SANITY, l2)
                ELSE
                LET crc == crc8(b, 15, \h31, 0)
                    checksum == U8(add_bytes(b, 16))
                IN  IF crc # b[16] \/ checksum # b[17] THEN Return(DECODE_FAIL_MIC, l2)
                    ELSE
                    LET id == b[2]
                        wind_dir == BitOr(b[3], Shl(BitAnd(b[4], \h80), 1))
                        low_battery == Shr(BitAnd(b[4], \h08), 3)
                        temp_raw == BitOr(Shl(BitAnd(b[4], \h07), 8), b[5])
                        temperature == Dbl(temp_raw - 400, 10)
                        humidity == b[6]
                        wind_speed_raw == BitOr(b[7], Shl(BitAnd(b[4], \h10), 4))
                        wind_speed_factor == WH24_wind_speed_factor(type)
                        rain_cup_count == WH24_rain_cup_count(type)
                        wind_speed_ms == Dbl(wind_speed_raw * 125 * wind_speed_factor.num,
                                             1000 * wind_speed_factor.den)
                        gust_speed_raw == b[8]
                        gust_speed_ms == Dbl(gust_speed_raw * wind_speed_factor.num,
                                             wind_speed_factor.den)
                        rainfall_raw == WH24_rainfall_raw(b)
                        rainfall_mm == Dbl(rainfall_raw * rain_cup_count.num,
                                           rain_cup_count.den)
                        uv_raw == BitOr(Shl(b[11], 8), b[12])
                        light_raw == BitOr(BitOr(Shl(b[13], 16), Shl(b[14], 8)), b[15])
                        light_lux == Dbl(light_raw, 10)
                        uv_index == WH24_uv_index(uv_raw)
                        data == data_make(<<
                            Item("model", TRUE, IF type = MODEL_WH24 THEN "Fineoffset-WH24"
                                                ELSE "Fineoffset-WH65B"),
                            Item("id", TRUE, id),
                            Item("battery_ok", TRUE, IF low_battery = 0 THEN 1 ELSE 0),
                            Item("temperature_C", temp_raw # \h7FF, temperature),
                            Item("humidity", WH24_humidity_cond(humidity), humidity),
                            Item("wind_dir_deg", wind_dir # \h1FF, wind_dir),
                            Item("wind_avg_m_s", wind_speed_raw # \h1FF, wind_speed_ms),
                            Item("wind_max_m_s", gust_speed_raw # \hFF, gust_speed_ms),
                            Item("rain_mm", TRUE, rainfall_mm),
                            Item("uv", WH24_uv_cond(uv_raw), uv_raw),
                            Item("uvi", WH24_uv_cond(uv_raw), uv_index),
                            Item("light_lux", light_raw # \hFFFFFF, light_lux),
                            Item("mic", TRUE, "CRC") >>)
                    IN  Output(data, [l2 EXCEPT !.humidity = humidity,
                                                !.wind_speed_factor = wind_speed_factor,
                                                !.rain_cup_count = rain_cup_count,
                                                !.rainfall_raw = rainfall_raw,
                                                !.uv_raw = uv_raw,
                                                !.uv_index = uv_index])

-----------------------------------------------------------------------------
(* fineoffset_WH0290_callback *)

WH0290_battery_bars(b) ==
    BitOr(Shr(BitAnd(b[3], \h40), 4), Shr(BitAnd(b[5], \hC0), 6))

\* the argument groups of the WH0290 data_make call
WH0290_items(id, battery_ok, pm25, pm100, family, unknown1) == <<
    Item("model", TRUE, "Fineoffset-WH0290"),
    Item("id", TRUE, id),
    Item("battery_ok", TRUE, battery_ok),
    Item("pm2_5_ug_m3", TRUE, pm25 \div 10),
    Item("estimated_pm10_0_ug_m3", TRUE, pm100 \div 10),
    Item("family", TRUE, family),
    Item("unknown1", TRUE, unknown1),
    Item("mic", TRUE, "CRC") >>

fineoffset_WH0290_callback(row) ==
    LET bit_offset == FindPackage(row)
        l1 == [NoLoc EXCEPT !.fn = "WH0290", !.bit_offset = bit_offset]
    IN  IF bit_offset + 8 * 8 > Len(row) THEN Return(DECODE_ABORT_LENGTH, l1)
        ELSE
        LET b == bitbuffer_extract_bytes(row, bit_offset, 8 * 8)
            l2 == [l1 EXCEPT !.b = b]
            crc == crc8(b, 6, \h31, 0)
            checksum == U8(add_bytes(b, 7))
        IN  IF crc # b[7] \/ checksum # b[8] THEN Return(DECODE_FAIL_MIC, l2)
            ELSE
            LET family == b[1]
                id == b[2]
                unknown1 == IF BitAnd(b[3], \h80) # 0 THEN 1 ELSE 0
                pm25 == BitOr(Shl(BitAnd(b[3], \h3F), 8), b[4])
                pm100 == BitOr(Shl(BitAnd(b[5], \h3F), 8), b[6])
                battery_bars == WH0290_battery_bars(b)
                battery_ok == Dbl(battery_bars * 2, 10)
                data == data_make(WH0290_items(id, battery_ok, pm25, pm100,
                                               family, unknown1))
            IN  Output(data, [l2 EXCEPT !.battery_bars = battery_bars])

-----------------------------------------------------------------------------
(* fineoffset_WH25_callback *)

\* the length rule without the assignment made for rows above 510 bits
WH25_length_type_no510(bits_per_row) ==
    IF bits_per_row >= 160 /\ bits_per_row < 190 THEN 32 ELSE 25

\* the type chosen from the row length before the preamble search
WH25_length_type(bits_per_row) ==
    IF bits_per_row >= 160 /\ bits_per_row < 190 THEN 32
    ELSE IF bits_per_row > 510 THEN 32
    ELSE 25

\* the type after the message type nibble is verified, 0 when it is unknown
WH25_msg_type(type, msg_type) ==
    IF type = 32 /\ msg_type = \hD0 THEN 31
    ELSE IF msg_type # \hE0 THEN 0
    ELSE type

\* the WH25 groups with the WH32 model group repeating the WH32B condition
WH25_items_cond32(type, id, low_battery, temperature, humidity, pressure_raw, pressure) == <<
    Item("model", type = 32, "Fineoffset-WH32"),
    Item("model", type = 32, "Fineoffset-WH32B"),
    Item("model", type = 25, "Fineoffset-WH25"),
    Item("id", TRUE, id),
    Item("battery_ok", TRUE, IF low_battery = 0 THEN 1 ELSE 0),
    Item("temperature_C", TRUE, temperature),
    Item("humidity", TRUE, humidity),
    Item("pressure_hPa", pressure_raw # \hFFFF, pressure),
    Item("mic", TRUE, "CRC") >>

\* the argument groups of the WH25 data_make call
WH25_items(type, id, low_battery, temperature, humidity, pressure_raw, pressure) == <<
    Item("model", type = 31, "Fineoffset-WH32"),
    Item("model", type = 32, "Fineoffset-WH32B"),
    Item("model", type = 25, "Fineoffset-WH25"),
    Item("id", TRUE, id),
    Item("battery_ok", TRUE, IF low_battery = 0 THEN 1 ELSE 0),
    Item("temperature_C", TRUE, temperature),
    Item("humidity", TRUE, humidity),
    Item("pressure_hPa", pressure_raw # \hFFFF, pressure),
    Item("mic", TRUE, "CRC") >>

\* the verification with the sum compared for type 25 only
WH25_checksum_ok_sum25(type, b) ==
    LET sum == BitAnd(add_bytes(b, 6), \hFF) - b[7]
        xs == xor_bytes(b, 6)
        bitsum == BitOr(Shl(BitAnd(xs, \h0F), 4), Shr(xs, 4))
    IN  /\ ~(type = 25 /\ sum # 0)
        /\ ~(type = 25 /\ bitsum # b[8])

\* the sum and xor-sum verification
WH25_checksum_ok(type, b) ==
    LET sum == BitAnd(add_bytes(b, 6), \hFF) - b[7]
        xs == xor_bytes(b, 6)
        bitsum == BitOr(Shl(BitAnd(xs, \h0F), 4), Shr(xs, 4))
    IN  /\ sum = 0
        /\ ~(type = 25 /\ bitsum # b[8])

fineoffset_WH25_callback(row) ==
    IF Len(row) < 160 THEN fineoffset_WH0290_callback(row)
    ELSE IF Len(row) >= 190 /\ Len(row) < 440 THEN fineoffset_WH24_callback(row)
    ELSE
    LET type0 == WH25_length_type(Len(row))
        bit_offset == FindPackage(row)
        l1 == [NoLoc EXCEPT !.fn = "WH25", !.bit_offset = bit_offset, !.type = type0]
    IN  IF bit_offset + 8 * 8 > Len(row) THEN Return(DECODE_ABORT_LENGTH, l1)
        ELSE
        LET b == bitbuffer_extract_bytes(row, bit_offset, 8 * 8)
            msg_type == BitAnd(b[1], \hF0)
            type == WH25_msg_type(type0, msg_type)
            l2 == [l1 EXCEPT !.b = b, !.type = type]
        IN  IF type = 0
            THEN IF b[1] = \h41 THEN fineoffset_WH0290_callback(row)
                 ELSE Return(DECODE_ABORT_EARLY, l2)
            ELSE IF ~WH25_checksum_ok(type, b) THEN Return(DECODE_FAIL_MIC, l2)
            ELSE
            LET id == U8(BitOr(Shl(BitAnd(b[1], \h0F), 4), Shr(b[2], 4)))
                low_battery == Shr(BitAnd(b[2], \h08), 3)
                temp_raw == BitOr(Shl(BitAnd(b[2], \h03), 8), b[3])
                temperature == Dbl(temp_raw - 400, 10)
                humidity == b[4]
                pressure_raw == BitOr(Shl(b[5], 8), b[6])
                pressure == Dbl(pressure_raw, 10)
                data == data_make(WH25_items(type, id, low_battery, temperature,
                                             humidity, pressure_raw, pressure))
            IN  Output(data, [l2 EXCEPT !.humidity = humidity])

-----------------------------------------------------------------------------
(* fineoffset_WH51_callback *)

HexDigit == <<"0", "1", "2", "3", "4", "5", "6", "7", "8", "9", "a", "b", "c", "d", "e", "f">>

\* printf "%02x" of a value below 256
Hex02(v) == HexDigit[(v \div 16) + 1] \o HexDigit[(v % 16) + 1]

\* printf "%04x" of a value below 65536
Hex04(v) == Hex02(v \div 256) \o Hex02(v % 256)

fineoffset_WH51_callback(row) ==
    LET l0 == [NoLoc EXCEPT !.fn = "WH51"]
    IN  IF Len(row) < 120 THEN Return(DECODE_ABORT_LENGTH, l0)
        ELSE
        LET bit_offset == FindPackage(row)
            l1 == [l0 EXCEPT !.bit_offset = bit_offset]
        IN  IF bit_offset + 14 * 8 > Len(row) THEN Return(DECODE_ABORT_LENGTH, l1)
            ELSE
            LET b == bitbuffer_extract_bytes(row, bit_offset, 14 * 8)
                l2 == [l1 EXCEPT !.b = b]
            IN  IF b[1] # \h51 THEN Return(DECODE_ABORT_EARLY, l2)
                ELSE IF BitAnd(add_bytes(b, 13), \hFF) # b[14] THEN Return(DECODE_FAIL_MIC, l2)
                ELSE IF crc8(b, 12, \h31, 0) # b[13] THEN Return(DECODE_FAIL_MIC, l2)
                ELSE
                LET id == Hex02(b[2]) \o Hex02(b[3]) \o Hex02(b[4])
                    boost == Shr(BitAnd(b[5], \hE0), 5)
                    battery_mv == BitAnd(b[5], \h1F) * 100
                    battery_level == Dbl(battery_mv - 700, 900)
                    ad_raw == BitOr(Shl(BitAnd(b[8], \h01), 8), b[9])
                    moisture == b[7]
                    data == data_make(<<
                        Item("model", TRUE, "Fineoffset-WH51"),
                        Item("id", TRUE, id),
                        Item("battery_ok", TRUE, battery_level),
                        Item("battery_mV", TRUE, battery_mv),
                        Item("moisture", TRUE, moisture),
                        Item("boost", TRUE, boost),
                        Item("ad_raw", TRUE, ad_raw),
                        Item("mic", TRUE, "CRC") >>)
                IN  Output(data, l2)

-----------------------------------------------------------------------------
(* alecto_ws1200v1_callback, alecto_ws1200v2_dcf_callback, alecto_ws1200v2_callback *)

\* the rain count of the WH0530 and Alecto frames
PWM_rainfall_raw(b) == BitOr(Shl(b[5], 8), b[4])

\* the record of the temperature/rain frames (WH0530, Alecto v1, Alecto v2)
TempRain_items(model, b) ==
    LET id == BitOr(Shl(BitAnd(b[1], \h0F), 4), Shr(b[2], 4))
        battery_low == BitAnd(Shr(b[2], 3), \h1)
        temp_raw == BitOr(Shl(BitAnd(b[2], \h7), 8), b[3])
        temperature == Dbl(temp_raw - 400, 10)
        rainfall_raw == PWM_rainfall_raw(b)
        rainfall == Dbl(rainfall_raw * 3, 10)
    IN  << Item("model", TRUE, model),
           Item("id", TRUE, id),
           Item("battery_ok", TRUE, IF battery_low = 0 THEN 1 ELSE 0),
           Item("temperature_C", TRUE, temperature),
           Item("rain_mm", TRUE, rainfall),
           Item("mic", TRUE, "CRC") >>

alecto_ws1200v1_callback(row) ==
    LET l0 == [NoLoc EXCEPT !.fn = "AlectoV1"]
    IN  IF Len(row) # 63 \/ Shr(bb(row, 0), 1) # \h7F \/ Shr(bb(row, 1), 5) # \h3
        THEN Return(DECODE_ABORT_LENGTH, l0)
        ELSE
        LET b == bitbuffer_extract_bytes(row, 7, 7 * 8)
            l1 == [l0 EXCEPT !.b = b, !.bit_offset = 7]
            crc == crc8(b, 7, \h31, 0)
        IN  IF crc # 0 THEN Return(DECODE_FAIL_MIC, l1)
            ELSE Output(data_make(TempRain_items("Alecto-WS1200v1", b)),
                        [l1 EXCEPT !.rainfall_raw = PWM_rainfall_raw(b)])

alecto_ws1200v2_dcf_callback(row) ==
    LET l0 == [NoLoc EXCEPT !.fn = "AlectoV2DCF"]
    IN  IF Len(row) # 95 \/ Shr(bb(row, 0), 1) # \h7F \/ Shr(bb(row, 1), 1) # \h52
        THEN Return(DECODE_ABORT_LENGTH, l0)
        ELSE
        LET b == bitbuffer_extract_bytes(row, 7, 11 * 8)
            l1 == [l0 EXCEPT !.b = b, !.bit_offset = 7]
            crc == crc8(b, 10, \h31, 0)
            sum == add_bytes(b, 10) - b[11]
        IN  IF crc # 0 THEN Return(DECODE_FAIL_MIC, l1)
            ELSE IF sum % 256 # 0 THEN Return(DECODE_FAIL_MIC, l1)
            ELSE
            LET id == b[2]
                battery_low == BitAnd(Shr(b[3], 7), \h1)
                date_y == b[5] + \h2000
                clock_str == Hex04(date_y) \o "-" \o Hex02(b[6]) \o "-" \o Hex02(b[7])
                             \o "T" \o Hex02(b[8]) \o ":" \o Hex02(b[9]) \o ":" \o Hex02(b[10])
                data == data_make(<<
                    Item("model", TRUE, "Alecto-WS1200v2"),
                    Item("id", TRUE, id),
                    Item("battery_ok", TRUE, IF battery_low = 0 THEN 1 ELSE 0),
                    Item("radio_clock", TRUE, clock_str),
                    Item("mic", TRUE, "CRC") >>)
            IN  Output(data, l1)

alecto_ws1200v2_callback(row) ==
    IF Len(row) # 95 \/ Shr(bb(row, 0), 1) # \h7F \/ Shr(bb(row, 1), 5) # \h3
    THEN alecto_ws1200v2_dcf_callback(row)
    ELSE
    LET b == bitbuffer_extract_bytes(row, 7, 11 * 8)
        l1 == [NoLoc EXCEPT !.fn = "AlectoV2", !.b = b, !.bit_offset = 7]
        crc == crc8(b, 7, \h31, 0)
        sum == add_bytes(b, 7) - b[8]
    IN  IF crc # 0 THEN Return(DECODE_FAIL_MIC, l1)
        ELSE IF sum % 256 # 0 THEN Return(DECODE_FAIL_MIC, l1)
        ELSE Output(data_make(TempRain_items("Alecto-WS1200v2", b)),
                    [l1 EXCEPT !.rainfall_raw = PWM_rainfall_raw(b)])

-----------------------------------------------------------------------------
(* fineoffset_WH0530_callback *)

\* the callback with the record built and output ahead of the verification
fineoffset_WH0530_callback_output_first(row) ==
    IF Len(row) = 63 THEN alecto_ws1200v1_callback(row)
    ELSE IF Len(row) = 95 THEN alecto_ws1200v2_callback(row)
    ELSE
    LET l0 == [NoLoc EXCEPT !.fn = "WH0530"]
    IN  IF Len(row) # 71 THEN Return(DECODE_ABORT_LENGTH, l0)
        ELSE IF Shr(bb(row, 0), 1) # \h7F \/ Shr(bb(row, 1), 5) # \h3
        THEN Return(DECODE_ABORT_EARLY, l0)
        ELSE
        LET b == bitbuffer_extract_bytes(row, 7, 8 * 8)
            l1 == [l0 EXCEPT !.b = b, !.bit_offset = 7]
            crc == crc8(b, 7, \h31, 0)
            sum == BitAnd(add_bytes(b, 7), \hFF) - b[8]
            done == Output(data_make(TempRain_items("Fineoffset-WH0530", b)),
                           [l1 EXCEPT !.rainfall_raw = PWM_rainfall_raw(b)])
        IN  IF crc # 0 \/ sum # 0 THEN [done EXCEPT !.ret = DECODE_FAIL_MIC]
            ELSE done

fineoffset_WH0530_callback(row) ==
    IF Len(row) = 63 THEN alecto_ws1200v1_callback(row)
    ELSE IF Len(row) = 95 THEN alecto_ws1200v2_callback(row)
    ELSE
    LET l0 == [NoLoc EXCEPT !.fn = "WH0530"]
    IN  IF Len(row) # 71 THEN Return(DECODE_ABORT_LENGTH, l0)
        ELSE IF Shr(bb(row, 0), 1) # \h7F \/ Shr(bb(row, 1), 5) # \h3
        THEN Return(DECODE_ABORT_EARLY, l0)
        ELSE
        LET b == bitbuffer_extract_bytes(row, 7, 8 * 8)
            l1 == [l0 EXCEPT !.b = b, !.bit_offset = 7]
            crc == crc8(b, 7, \h31, 0)
            sum == BitAnd(add_bytes(b, 7), \hFF) - b[8]
        IN  IF crc # 0 \/ sum # 0 THEN Return(DECODE_FAIL_MIC, l1)
            ELSE Output(data_make(TempRain_items("Fineoffset-WH0530", b)),
                        [l1 EXCEPT !.rainfall_raw = PWM_rainfall_raw(b)])

-----------------------------------------------------------------------------
(* Output fields definitions and device definitions *)

output_fields == {"model", "id", "temperature_C", "humidity", "mic"}

output_fields_WH25 ==
    {"model", "id", "battery_ok", "temperature_C", "humidity", "pressure_hPa",
     "wind_dir_deg", "wind_avg_m_s", "wind_max_m_s", "rain_mm", "uv", "uvi",
     "light_lux", "pm2_5_ug_m3", "estimated_pm10_0_ug_m3", "mic"}

output_fields_WH51 ==
    {"model", "id", "battery_ok", "battery_mV", "moisture", "boost", "ad_raw", "mic"}

output_fields_WH0530 ==
    {"model", "id", "battery_ok", "temperature_C", "rain_mm", "radio_clock", "mic"}

Devices == {"WH2", "WH25", "WH51", "WH0530"}

\* r_device.fields
fields(dev) ==
    CASE dev = "WH2" -> output_fields
      [] dev = "WH25" -> output_fields_WH25
      [] dev = "WH51" -> output_fields_WH51
      [] dev = "WH0530" -> output_fields_WH0530

\* r_device.decode_fn
decode_fn(dev, row) ==
    CASE dev = "WH2" -> fineoffset_WH2_callback(row)
      [] dev = "WH25" -> fineoffset_WH25_callback(row)
      [] dev = "WH51" -> fineoffset_WH51_callback(row)
      [] dev = "WH0530" -> fineoffset_WH0530_callback(row)

-----------------------------------------------------------------------------
(* rows delivered by the demodulator: what the sensors transmit, and rows    *)
(* of other lengths and headers                                              *)

Fill(n, v) == [i \in 1..n |-> v]

\* the alternating bits a transmitter sends ahead of the sync word
Lead(n) == [i \in 1..n |-> (n - i) % 2]

Seal_WH2(d) == d \o <<crc8(d, 4, \h31, 0)>>

Seal_CrcSum(d) ==
    LET c == crc8(d, Len(d), \h31, 0)
    IN  d \o <<c, U8(add_bytes(d, Len(d)) + c)>>

Seal_Crc(d) == d \o <<crc8(d, Len(d), \h31, 0)>>

Seal_WH25(d) ==
    LET xs == xor_bytes(d, 6)
    IN  d \o <<U8(add_bytes(d, 6)), (xs % 16) * 16 + xs \div 16>>

Seal_WH32(d, last) == d \o <<U8(add_bytes(d, 6)), last>>

\* a frame with its last byte off by one
Spoil(f) == [f EXCEPT ![Len(f)] = U8(f[Len(f)] + 1)]

PwmRow(ones, frame, tail) == Fill(ones, 1) \o BytesToBits(frame) \o Fill(tail, 0)

FskRow(lead, frame, tail) ==
    Lead(lead) \o BytesToBits(preamble) \o BytesToBits(frame) \o Fill(tail, 0)

Humidities == {\h00, \h37, \hFE, \hFF}

(* WH2, WH2A, WH5, Telldus *)
DataWH2 == <<\h45, \hA0, \hF5, \h37>>
FramesWH2 ==
    {Seal_WH2([DataWH2 EXCEPT ![4] = h]) : h \in Humidities}
    \cup {Seal_WH2([DataWH2 EXCEPT ![2] = \hA0 + t[1], ![3] = t[2]]) :
            t \in {<<\h8, \h00>>, <<\h8, \hF5>>, <<\h7, \hFF>>, <<\hF, \hFF>>,
                   <<\h0, \h00>>, <<\h1, \h90>>}}
    \cup {Seal_WH2([DataWH2 EXCEPT ![1] = \h55]), Spoil(Seal_WH2(DataWH2))}
\* <<preamble ones, padding>>: WH2, WH2A, WH5, Telldus
ShapesWH2 == {<<8, 0>>, <<7, 8>>, <<7, 0>>, <<9, 0>>}
\* the same lengths under another first byte, and other lengths
OddShapesWH2 ==
    {<<7, 1>>, <<8, 7>>, <<6, 1>>, <<8, 1>>, <<7, 2>>, <<6, 0>>, <<8, 2>>, <<8, 8>>}
RowsWH2 ==
    {PwmRow(s[1], f, s[2]) : s \in ShapesWH2, f \in FramesWH2}
    \cup {PwmRow(s[1], Seal_WH2(DataWH2), s[2]) : s \in OddShapesWH2}
    \cup {PwmRow(7, Seal_WH2(DataWH2) \o <<\h5C>>, 0)}

(* WH24, WH65B *)
DataWH24 == <<\h24, \h5A, \h2D, \h02, \h9D, \h37, \h10, \h18, \h01, \h2C,
              \h01, \hB0, \h00, \h12, \h34>>
FramesWH24 ==
    {Seal_CrcSum([DataWH24 EXCEPT ![6] = h]) : h \in Humidities}
    \cup {Seal_CrcSum([DataWH24 EXCEPT ![11] = u[1], ![12] = u[2]]) :
            u \in {<<\hFF, \hFF>>, <<\hFF, \hFE>>, <<\h01, \hB1>>}}
    \cup {Seal_CrcSum([DataWH24 EXCEPT ![1] = \h25]),
          Spoil(Seal_CrcSum(DataWH24)),
          [Seal_CrcSum(DataWH24) EXCEPT ![16] = U8(@ + 1)]}
\* <<bits ahead of the sync word, bits after the frame>>
ShapesWH24 ==
    {<<36, 0>>, <<36, 7>>, <<23, 7>>, <<30, 0>>,      \* WH24
     <<37, 0>>, <<37, 7>>, <<55, 0>>,                 \* found at 61 or later
     <<36, 8>>, <<22, 8>>, <<0, 30>>, <<0, 55>>,      \* slack of 8 or more
     <<37, 8>>}
OddShapesWH24 == {<<29, 0>>, <<0, 29>>, <<0, 56>>, <<56, 0>>, <<0, 279>>, <<100, 179>>}
RowsWH24 ==
    {FskRow(s[1], Seal_CrcSum(DataWH24), s[2]) : s \in ShapesWH24 \cup OddShapesWH24}
    \cup {FskRow(s[1], f, s[2]) : s \in {<<36, 0>>, <<37, 8>>}, f \in FramesWH24}
    \cup {FskRow(70, SubSeq(Seal_CrcSum(DataWH24), 1, 12), 0), Lead(200), Fill(200, 0)}

(* WH0290 *)
DataWH0290 == <<\h41, \h5A, \h40, \h7B, \h80, \hEA>>
FramesWH0290 ==
    {Seal_CrcSum([DataWH0290 EXCEPT ![3] = v[1], ![5] = v[2]]) :
        v \in {<<\h40, \h80>>, <<\h00, \h00>>, <<\h00, \hC0>>, <<\h40, \hC0>>, <<\h80, \h40>>}}
    \cup {Spoil(Seal_CrcSum(DataWH0290)), Seal_CrcSum([DataWH0290 EXCEPT ![1] = \h42])}
RowsWH0290 ==
    {FskRow(s[1], f, s[2]) : s \in {<<16, 0>>, <<40, 31>>}, f \in FramesWH0290}
    \cup {FskRow(s[1], Seal_CrcSum(DataWH0290), s[2]) :
            s \in {<<72, 0>>, <<72, 29>>, <<352, 0>>, <<423, 0>>}}
    \cup {FskRow(16, SubSeq(Seal_CrcSum(DataWH0290), 1, 7), 0), Lead(100)}

(* WH25, WH32, WH32B *)
DataWH25 == <<\hE5, \hA2, \h9D, \h37, \h27, \h6C>>
DatasWH25 ==
    {[DataWH25 EXCEPT ![4] = h] : h \in Humidities}
    \cup {[DataWH25 EXCEPT ![5] = \hFF, ![6] = \hFF], [DataWH25 EXCEPT ![1] = \hD5],
          [DataWH25 EXCEPT ![1] = \h45]}
FramesWH25 ==
    {Seal_WH25(d) : d \in DatasWH25}
    \cup {Seal_WH32(d, \h00) : d \in {DataWH25, [DataWH25 EXCEPT ![1] = \hD5]}}
    \cup {Spoil(Seal_WH25(DataWH25)), [Seal_WH25(DataWH25) EXCEPT ![7] = U8(@ + 1)]}
\* rows of 160, 189, 440, 510, 511 and 520 bits
ShapesWH25 == {<<72, 0>>, <<72, 29>>, <<352, 0>>, <<352, 70>>, <<423, 0>>, <<423, 9>>}
RowsWH25 ==
    {FskRow(72, f, 0) : f \in FramesWH25}
    \cup {FskRow(s[1], Seal_WH25(d), s[2]) :
            s \in ShapesWH25,
            d \in {DataWH25, [DataWH25 EXCEPT ![1] = \hD5], [DataWH25 EXCEPT ![4] = \hFF]}}
    \cup {FskRow(s[1], f, 0) :
            s \in {<<352, 0>>, <<423, 0>>},
            f \in {Seal_WH32(DataWH25, \h00), Seal_WH25([DataWH25 EXCEPT ![1] = \h45]),
                   Spoil(Seal_WH25(DataWH25)), [Seal_WH25(DataWH25) EXCEPT ![7] = U8(@ + 1)]}}
    \cup {FskRow(400, SubSeq(Seal_WH25(DataWH25), 1, 7), 0), Lead(450), Lead(511)}

(* WH51 *)
DataWH51 == <<\h51, \hA1, \hB2, \hC3, \h6E, \h00, \h32, \h01, \h7F, \hFF, \hFF, \hFF>>
FramesWH51 ==
    {Seal_CrcSum(DataWH51), Seal_CrcSum([DataWH51 EXCEPT ![1] = \h52]),
     Spoil(Seal_CrcSum(DataWH51)), [Seal_CrcSum(DataWH51) EXCEPT ![13] = U8(@ + 1)]}
RowsWH51 ==
    {FskRow(16, f, 0) : f \in FramesWH51}
    \cup {FskRow(s[1], Seal_CrcSum(DataWH51), s[2]) : s \in {<<0, 0>>, <<16, 40>>, <<200, 30>>}}
    \cup {FskRow(0, SubSeq(Seal_CrcSum(DataWH51), 1, 11), 7),
          FskRow(10, SubSeq(Seal_CrcSum(DataWH51), 1, 12), 0),
          Lead(119), Lead(150)}

(* WH0530, Alecto WS-1200 v1, v2, v2 DCF *)
DataTempRain == <<\h35, \hA2, \h9D, \h2C, \h01, \hFF>>
\* first bytes: the type nibble 0x3, with its top bit set, and another type
TypesTempRain == {\h35, \hB5, \h25}
DataDCF == <<\h52, \h5A, \h80, \h00, \h26, \h11, \h04, \h10, \h08>>
TypesDCF == {\h52, \hD2, \h53}
FramesV1 ==
    {Seal_Crc([DataTempRain EXCEPT ![1] = t]) : t \in TypesTempRain}
    \cup {Spoil(Seal_Crc(DataTempRain)), Seal_Crc([DataTempRain EXCEPT ![4] = \h00, ![5] = \h02])}
FramesWH0530 ==
    {Seal_CrcSum([DataTempRain EXCEPT ![1] = t]) : t \in TypesTempRain}
    \cup {Spoil(Seal_CrcSum(DataTempRain)), [Seal_CrcSum(DataTempRain) EXCEPT ![7] = U8(@ + 1)],
          Seal_CrcSum([DataTempRain EXCEPT ![4] = \h00, ![5] = \h02])}
FramesV2 ==
    {f \o <<\h12, \h34, \h56>> : f \in FramesWH0530}
FramesDCF ==
    {Seal_CrcSum([DataDCF EXCEPT ![1] = t]) : t \in TypesDCF}
    \cup {Spoil(Seal_CrcSum(DataDCF)), [Seal_CrcSum(DataDCF) EXCEPT ![10] = U8(@ + 1)]}
FramesPwm == FramesV1 \cup FramesWH0530 \cup FramesV2 \cup FramesDCF
RowsWH0530 ==
    {PwmRow(7, f, 0) : f \in FramesPwm}
    \cup {Fill(6, 1) \o <<0>> \o BytesToBits(f) :
            f \in {Seal_Crc(DataTempRain), Seal_CrcSum(DataTempRain),
                   Seal_CrcSum(DataTempRain) \o <<\h12, \h34, \h56>>, Seal_CrcSum(DataDCF)}}
    \cup {PwmRow(s[1], f, s[2]) : s \in {<<6, 0>>, <<7, 1>>},
            f \in {Seal_Crc(DataTempRain), Seal_CrcSum(DataTempRain),
                   Seal_CrcSum(DataDCF)}}

Rows == RowsWH2 \cup RowsWH24 \cup RowsWH0290 \cup RowsWH25 \cup RowsWH51 \cup RowsWH0530

-----------------------------------------------------------------------------

\* how many repeats in a row arrive with one more bit flipped
MaxFlips == 1

NoBase == [entry |-> "", pos |-> 0 - 1, n |-> 0, loc |-> NoLoc]

Init ==
    /\ bits \in Rows
    /\ pc = "ready"
    /\ entry = ""
    /\ ret = 0
    /\ emitted = <<>>
    /\ loc = NoLoc
    /\ base = NoBase
    /\ hist = <<>>

\* the decode_fn of device dev has run on row and returned r
Returned(dev, row, r) ==
    /\ bits' = row
    /\ pc' = "done"
    /\ entry' = dev
    /\ ret' = r.ret
    /\ emitted' = r.out
    /\ loc' = r.loc

fineoffset_WH2 ==
    /\ pc = "ready"
    /\ Returned("WH2", bits, fineoffset_WH2_callback(bits))
    /\ UNCHANGED <<base, hist>>

fineoffset_WH25 ==
    /\ pc = "ready"
    /\ Returned("WH25", bits, fineoffset_WH25_callback(bits))
    /\ UNCHANGED <<base, hist>>

fineoffset_WH51 ==
    /\ pc = "ready"
    /\ Returned("WH51", bits, fineoffset_WH51_callback(bits))
    /\ UNCHANGED <<base, hist>>

fineoffset_WH0530 ==
    /\ pc = "ready"
    /\ Returned("WH0530", bits, fineoffset_WH0530_callback(bits))
    /\ UNCHANGED <<base, hist>>

\* the device dev decodes the row it is handed
Decode(dev, row) == Returned(dev, row, decode_fn(dev, row))

\* the sensor repeats a frame that was decoded, one bit of the frame arrives
\* flipped, and the device that decoded the first copy decodes the repeat
Repeat ==
    /\ pc = "done"
    /\ ret = 1
    /\ base.n < MaxFlips
    /\ \E i \in loc.bit_offset..(loc.bit_offset + 8 * Len(loc.b) - 1) :
          /\ i < Len(bits)
          /\ Decode(entry, [bits EXCEPT ![i + 1] = 1 - @])
          /\ base' = [entry |-> entry, pos |-> i, n |-> base.n + 1, loc |-> loc]
    /\ UNCHANGED hist

Next ==
    \/ fineoffset_WH2
    \/ fineoffset_WH25
    \/ fineoffset_WH51
    \/ fineoffset_WH0530
    \/ Repeat

Spec == Init /\ [][Next]_vars

-----------------------------------------------------------------------------
(* One WH24 sensor heard over and over by the WH25 device while its UV      *)
(* reading changes; hist keeps the reading of the decode before.            *)

UvRaws ==
    {0, \hFFFE, \hFFFF}
    \cup {uvi_upper[k] : k \in 1..13}
    \cup {uvi_upper[k] + 1 : k \in 1..13}

RowsUV ==
    {FskRow(36, Seal_CrcSum([DataWH24 EXCEPT ![11] = u \div 256, ![12] = u % 256]), 0) :
        u \in UvRaws}

InitUV ==
    /\ bits \in RowsUV
    /\ pc = "ready"
    /\ entry = ""
    /\ ret = 0
    /\ emitted = <<>>
    /\ loc = NoLoc
    /\ base = NoBase
    /\ hist = <<>>

\* the next transmission arrives
Receive ==
    /\ pc = "done"
    /\ bits' \in RowsUV
    /\ hist' = IF ret = 1 /\ loc.fn = "WH24" THEN <<loc.uv_raw, loc.uv_index>> ELSE hist
    /\ pc' = "ready"
    /\ entry' = ""
    /\ ret' = 0
    /\ emitted' = <<>>
    /\ loc' = NoLoc
    /\ UNCHANGED base

NextUV ==
    \/ fineoffset_WH25
    \/ Receive

SpecUV == InitUV /\ [][NextUV]_vars

-----------------------------------------------------------------------------
(* Properties *)

Done == pc = "done"
Codes == {DECODE_ABORT_LENGTH, DECODE_ABORT_EARLY, DECODE_FAIL_MIC, DECODE_FAIL_SANITY}
Count(data, key) == Cardinality({i \in 1..Len(data) : data[i].key = key})
ModelOf(data) == Get(data, "model")

\* C1: every field name of an emitted record belongs to the output field list
\* declared by the device whose entry point was invoked, delegation included.
C1_FieldsDeclared ==
    Done => \A i \in 1..Len(emitted) : Keys(emitted[i]) \subseteq fields(entry)

\* C2: an invocation hands exactly one record to the emitter when it returns 1
\* and none when it returns an abort or fail code; it returns nothing else.
C2_OneRecordIffSuccess ==
    Done => /\ ret \in Codes \cup {1}
            /\ ret = 1 => Len(emitted) = 1
            /\ ret \in Codes => Len(emitted) = 0

C2_Witness ==
    /\ Done /\ entry = "WH25" /\ loc.fn = "WH0290" /\ Len(bits) >= 160
    /\ ret = 1 /\ Len(emitted) = 1

\* the bytes of a frame ahead of its first checksum or CRC byte
DataBytes(fn) ==
    CASE fn = "WH2" -> 4
      [] fn = "WH24" -> 15
      [] fn = "WH0290" -> 6
      [] fn = "WH25" -> 6
      [] fn = "WH51" -> 12
      [] fn = "AlectoV1" -> 6
      [] fn = "AlectoV2" -> 6
      [] fn = "AlectoV2DCF" -> 9
      [] fn = "WH0530" -> 6

\* the flipped bit, counted from the first bit of the frame that was decoded
FlipAt == base.pos - base.loc.bit_offset

\* the same decoder has run on a row that is a decoded row with one bit of
\* the data/header bytes of its frame flipped
FlippedData ==
    /\ Done
    /\ base.pos >= 0
    /\ entry = base.entry
    /\ base.loc.b # <<>>
    /\ FlipAt < 8 * DataBytes(base.loc.fn)

\* C3 as stated: a single bit flipped in the non-trailer bytes of a frame that
\* decoded makes the same decoder return FailIntegrity.
C3_FlipFailsIntegrity == FlippedData => ret = DECODE_FAIL_MIC

\* the code of the header test that a flipped bit trips ahead of the
\* integrity check, FailIntegrity where no header test reads the bit
FlipCode ==
    LET fn == base.loc.fn
        q == FlipAt
    IN  IF fn = "WH24" /\ q < 8 THEN DECODE_FAIL_SANITY
        ELSE IF fn = "WH25" /\ q < 4 THEN DECODE_ABORT_EARLY
        ELSE IF fn = "WH51" /\ q < 8 THEN DECODE_ABORT_EARLY
        ELSE IF fn = "WH0290" /\ Len(bits) >= 160 /\ q < 8 THEN DECODE_ABORT_EARLY
        ELSE IF fn = "WH0530" /\ q \in 1..3 THEN DECODE_ABORT_EARLY
        ELSE IF fn = "WH2" /\ base.loc.model_num \in {MODEL_WH2A, MODEL_WH5} /\ q = 0
             THEN DECODE_ABORT_LENGTH
        ELSE IF fn \in {"AlectoV1", "AlectoV2"} /\ q \in 1..3 THEN DECODE_ABORT_LENGTH
        ELSE IF fn = "AlectoV2DCF" /\ q \in 1..7 THEN DECODE_ABORT_LENGTH
        ELSE DECODE_FAIL_MIC

\* C3 amended: such a flip never decodes; the decoder returns FailIntegrity
\* unless the bit is one its header test reads ahead of the integrity check,
\* and then it returns the code of that test.
C3_FlipNeverDecodes ==
    FlippedData => /\ ret # 1
                   /\ emitted = <<>>
                   /\ ret = FlipCode

C3_Witness ==
    /\ FlippedData /\ base.loc.fn = "WH24" /\ FlipAt = 7
    /\ ret = DECODE_FAIL_SANITY

\* the first byte the WH2 family expects for a row length
WH2_byte0(len) == IF len \in {48, 49} THEN \hFF ELSE \hFE

\* the 0x7F preamble or the type value of a WH0530/Alecto row is wrong
PwmHeaderWrong ==
    \/ Shr(bb(bits, 0), 1) # \h7F
    \/ Len(bits) \in {63, 71} /\ Shr(bb(bits, 1), 5) # \h3
    \/ Len(bits) = 95 /\ Shr(bb(bits, 1), 5) # \h3 /\ Shr(bb(bits, 1), 1) # \h52

\* C4: a row whose bit count is one a variant accepts and whose header does
\* not match that variant is answered with AbortEarly, not AbortLength.
C4_HeaderMismatchAbortsEarly ==
    Done => /\ (entry = "WH2" /\ Len(bits) \in {47, 48, 49, 55}
                  /\ bb(bits, 0) # WH2_byte0(Len(bits)))
               => ret = DECODE_ABORT_EARLY
            /\ (entry = "WH0530" /\ Len(bits) \in {63, 71, 95} /\ PwmHeaderWrong)
               => ret = DECODE_ABORT_EARLY

\* nothing was extracted, decoded or emitted, and the answer is AbortLength
LengthAborted(r) ==
    /\ r.ret = DECODE_ABORT_LENGTH
    /\ r.out = <<>>
    /\ r.loc.b = <<>>

\* C5: a bit count outside every accepted set yields AbortLength, with no
\* frame extracted and no record, whatever the row holds.
C5_LengthOutsideAborts ==
    /\ (Len(bits) < 190 \/ Len(bits) > 215)
       => LengthAborted(fineoffset_WH24_callback(bits))
    /\ Done =>
        LET r == [ret |-> ret, out |-> emitted, loc |-> loc]
        IN  /\ (entry = "WH2" /\ Len(bits) \notin {47, 48, 49, 55}) => LengthAborted(r)
            /\ (entry = "WH0530" /\ Len(bits) \notin {63, 71, 95}) => LengthAborted(r)
            /\ (entry = "WH25" /\ Len(bits) \in 216..439) => LengthAborted(r)
            /\ (entry = "WH51" /\ Len(bits) < 120) => LengthAborted(r)

\* a row of 216 bits that holds a sealed WH24 frame behind its sync word
C5_Witness ==
    /\ Done /\ entry = "WH25" /\ Len(bits) = 216
    /\ FindPackage(bits) + 17 * 8 <= Len(bits)
    /\ ret = DECODE_ABORT_LENGTH

\* C6: every emitted record has exactly one model field, an id field and a
\* mic field that is "CRC".
C6_ModelIdMic ==
    Done => \A i \in 1..Len(emitted) :
                /\ Count(emitted[i], "model") = 1
                /\ Count(emitted[i], "id") = 1
                /\ Count(emitted[i], "mic") = 1
                /\ Get(emitted[i], "mic") = "CRC"

C6_Witness ==
    /\ Done /\ ret = 1 /\ loc.fn = "WH25" /\ loc.type = 31
    /\ ModelOf(emitted[1]) = "Fineoffset-WH32"

\* C7: once the 17 byte frame fits behind the sync word the variant is WH24
\* exactly when bit_count - bit_offset - 136 < 8 and bit_offset < 61, and
\* WH65B otherwise; wind factor and bucket size are 1.12 and 0.3 for WH24,
\* 0.51 and 0.254 for WH65B.
C7_WH24Classification ==
    (Done /\ loc.fn = "WH24" /\ loc.b # <<>>) =>
        LET bit_offset == FindPackage(bits)
            wh24 == Len(bits) - bit_offset - 136 < 8 /\ bit_offset < 61
        IN  /\ Len(bits) >= 190 /\ Len(bits) <= 215
            /\ loc.type = IF wh24 THEN MODEL_WH24 ELSE MODEL_WH65B
            /\ ret = 1 =>
                /\ ModelOf(emitted[1]) = IF wh24 THEN "Fineoffset-WH24"
                                         ELSE "Fineoffset-WH65B"
                /\ loc.wind_speed_factor = IF wh24 THEN Dbl(112, 100) ELSE Dbl(51, 100)
                /\ loc.rain_cup_count = IF wh24 THEN Dbl(3, 10) ELSE Dbl(254, 1000)

C7_Witness ==
    /\ Done /\ loc.fn = "WH24" /\ ret = 1
    /\ loc.bit_offset = 60 /\ Len(bits) = 203
    /\ ModelOf(emitted[1]) = "Fineoffset-WH24"

\* the raw humidity byte of a decoded frame that carries one
HumidityByte ==
    CASE loc.fn = "WH2" -> loc.b[4]
      [] loc.fn = "WH24" -> loc.b[6]
      [] loc.fn = "WH25" -> loc.b[4]

\* C8: in every variant that can carry humidity a raw byte of 0xFF omits the
\* field and any other raw value includes it with that value.
C8_HumiditySentinel ==
    (Done /\ ret = 1 /\ loc.fn \in {"WH2", "WH24", "WH25"}) =>
        IF HumidityByte = \hFF THEN ~Has(emitted[1], "humidity")
        ELSE Has(emitted[1], "humidity") /\ Get(emitted[1], "humidity") = HumidityByte

\* C9: the UV index is the first index 0..12 of the threshold table whose
\* threshold the raw value does not exceed, 13 when it exceeds them all; it
\* lies in 0..13, does not decrease when the raw value grows, maps a raw value
\* equal to threshold i to i and one above it to i+1; uv and uvi are omitted
\* exactly when the raw value is 0xFFFF.
C9_UvIndex ==
    (Done /\ ret = 1 /\ loc.fn = "WH24") =>
        LET raw == loc.b[11] * 256 + loc.b[12]
            uvi == loc.uv_index
            notExceeded == {i \in 0..12 : raw <= uvi_upper[i + 1]}
            first == IF notExceeded = {} THEN 13
                     ELSE CHOOSE i \in notExceeded : \A j \in notExceeded : i <= j
            data == emitted[1]
        IN  /\ uvi \in 0..13
            /\ uvi = first
            /\ \A i \in 0..12 : /\ raw = uvi_upper[i + 1] => uvi = i
                                /\ raw = uvi_upper[i + 1] + 1 => uvi = i + 1
            /\ hist # <<>> => /\ hist[1] <= raw => hist[2] <= uvi
                              /\ hist[1] >= raw => hist[2] >= uvi
            /\ IF raw = \hFFFF THEN ~Has(data, "uv") /\ ~Has(data, "uvi")
               ELSE /\ Has(data, "uv") /\ Get(data, "uv") = raw
                    /\ Has(data, "uvi") /\ Get(data, "uvi") = uvi

C9_Witness ==
    /\ Done /\ ret = 1 /\ loc.fn = "WH24"
    /\ hist = <<432, 0>>
    /\ loc.uv_raw = 433 /\ loc.uv_index = 1
    /\ Get(emitted[1], "uvi") = 1

\* C10 as stated: through the WH25 entry a row of more than 510 bits that
\* decodes is reported as WH32B whatever its message type nibble.
C10_Above510IsWH32B ==
    (Done /\ entry = "WH25" /\ Len(bits) > 510 /\ ret = 1)
        => ModelOf(emitted[1]) = "Fineoffset-WH32B"

\* C10 amended: such a row is reported as WH32B when its message type nibble
\* is 0xE, as WH32 when it is 0xD, and as WH0290 when its first frame byte is
\* 0x41.
C10_Above510ByNibble ==
    (Done /\ entry = "WH25" /\ Len(bits) > 510 /\ ret = 1) =>
        LET b0 == ByteAt(bits, FindPackage(bits))
        IN  ModelOf(emitted[1]) =
                CASE b0 \div 16 = \hE -> "Fineoffset-WH32B"
                  [] b0 \div 16 = \hD -> "Fineoffset-WH32"
                  [] b0 = \h41 -> "Fineoffset-WH0290"
                  [] OTHER -> "none"

C10_Witness ==
    /\ Done /\ entry = "WH25" /\ Len(bits) > 510 /\ ret = 1
    /\ ByteAt(bits, FindPackage(bits)) \div 16 = \hD
    /\ ModelOf(emitted[1]) = "Fineoffset-WH32"

\* C11: a frame decodes as WH0530, Alecto v1 or Alecto v2 only when the top
\* nibble of its first byte is 0x3, and as Alecto v2 DCF only when its first
\* byte is 0x52.
C11_TypeChecked ==
    (Done /\ ret = 1) =>
        /\ loc.fn \in {"WH0530", "AlectoV1", "AlectoV2"} => loc.b[1] \div 16 = \h3
        /\ loc.fn = "AlectoV2DCF" => loc.b[1] = \h52

\* two frame bytes read with the one at the lower position, lo, as the
\* low-order byte, and as the high-order byte
LittleEndian(b, lo) == b[lo] + 256 * b[lo + 1]
BigEndian(b, lo) == 256 * b[lo] + b[lo + 1]

\* a record with rain_mm was emitted
RainDecoded ==
    Done /\ ret = 1 /\ loc.fn \in {"WH0530", "AlectoV1", "AlectoV2", "WH24"}

\* rain_mm of a raw count: 0.3 mm a tip in the PWM family, the bucket size of
\* the model in the WH24/WH65B decoder
RainMm(raw) ==
    IF loc.fn = "WH24"
    THEN Dbl(raw * loc.rain_cup_count.num, loc.rain_cup_count.den)
    ELSE Dbl(raw * 3, 10)

\* C12 as stated: in every variant that reports rain_mm the raw tip count is
\* its two frame bytes read little-endian, times the bucket size.
C12_RainLittleEndian ==
    RainDecoded =>
        LET raw == LittleEndian(loc.b, IF loc.fn = "WH24" THEN 9 ELSE 4)
        IN  /\ loc.rainfall_raw = raw
            /\ Get(emitted[1], "rain_mm") = RainMm(raw)

\* C12 amended: the count is read little-endian in WH0530 and Alecto v1/v2
\* and big-endian in WH24/WH65B, then multiplied by the bucket size.
C12_RainByteOrder ==
    RainDecoded =>
        LET raw == IF loc.fn = "WH24" THEN BigEndian(loc.b, 9)
                   ELSE LittleEndian(loc.b, 4)
        IN  /\ loc.rainfall_raw = raw
            /\ Get(emitted[1], "rain_mm") = RainMm(raw)

C12_Witness ==
    /\ RainDecoded /\ loc.fn = "WH24" /\ loc.type = MODEL_WH65B
    /\ loc.b[9] = \h01 /\ loc.b[10] = \h2C
    /\ Get(emitted[1], "rain_mm") = Dbl(300 * 254, 1000)

\* C13: the battery bars of a WH0290 frame that passed the integrity checks
\* are a 2 bit value, and the reported fraction, bars x 0.2, lies in 0..1.
C13_BatteryFraction ==
    (Done /\ ret = 1 /\ loc.fn = "WH0290") =>
        LET battery_ok == Get(emitted[1], "battery_ok")
        IN  /\ loc.battery_bars \in 0..3
            /\ battery_ok = Dbl(loc.battery_bars * 2, 10)
            /\ 0 <= battery_ok.num /\ battery_ok.num <= battery_ok.den

\* C14: the WH2 family temperature, in tenths of a degree, is raw - 400 for
\* WH5 (47 bits) and sign-magnitude for WH2, WH2A and Telldus (bit 11 the
\* sign, the low 11 bits the magnitude): it lies in -2047..2047 and raw
\* 0x800 yields 0.
C14_WH2Temperature ==
    (Done /\ ret = 1 /\ loc.fn = "WH2") =>
        LET raw == (loc.b[2] % 16) * 256 + loc.b[3]
            sign == raw \div 2048
            magnitude == raw % 2048
        IN  /\ loc.model_num = MODEL_WH5 <=> Len(bits) = 47
            /\ Len(bits) = 47 => loc.temp = raw - 400
            /\ Len(bits) # 47 =>
                /\ loc.model_num \in {MODEL_WH2, MODEL_WH2A, MODEL_TP}
                /\ loc.temp = IF sign = 1 THEN 0 - magnitude ELSE magnitude
                /\ loc.temp \in (0 - 2047)..2047
                /\ raw = \h800 => loc.temp = 0
            /\ Get(emitted[1], "temperature_C") = Dbl(loc.temp, 10)

C14_Witness ==
    /\ Done /\ ret = 1 /\ loc.fn = "WH2" /\ loc.model_num = MODEL_WH2A
    /\ loc.b[2] % 16 = \h8 /\ loc.b[3] = \hF5
    /\ Get(emitted[1], "temperature_C") = Dbl(0 - 245, 10)

\* the search for the sync word AA 2D D4 in the row finds nothing
PreambleMissing == bitbuffer_search(bits, 0, BytesToBits(preamble)) = Len(bits)

\* the bits the last extraction of the invocation read, 0 when none was made
ExtractedBits ==
    IF loc.b = <<>> THEN 0
    ELSE IF loc.fn = "WH2" THEN WH2_select(bits)[3]
    ELSE 8 * Len(loc.b)

\* C15: every extraction window lies inside the row; a preamble that is not
\* found yields AbortLength; the slack bit_count - bit_offset - 136 of the
\* WH24/WH65B decoder is never negative where it is computed.
C15_WindowInsideRow ==
    Done =>
        /\ loc.b # <<>> =>
            /\ loc.bit_offset >= 0
            /\ loc.bit_offset + ExtractedBits <= Len(bits)
        /\ (entry \in {"WH25", "WH51"} /\ PreambleMissing) =>
            /\ ret = DECODE_ABORT_LENGTH
            /\ loc.b = <<>>
        /\ (loc.fn = "WH24" /\ loc.type # 0 - 1) =>
            Len(bits) - loc.bit_offset - 17 * 8 >= 0

\* a WH24 frame that ends on the last bit of its row
C15_Witness ==
    /\ Done /\ ret = 1 /\ loc.fn = "WH24"
    /\ loc.bit_offset + ExtractedBits = Len(bits)
    /\ Len(bits) - loc.bit_offset - 17 * 8 = 0

\* C16: a Fineoffset-WH24 record is emitted only for rows of 190..203 bits
\* with bit_offset in 47..60; every row of 204..215 bits that the WH24/WH65B
\* decoder decodes is reported as Fineoffset-WH65B.
C16_WH24Ranges ==
    (Done /\ ret = 1) =>
        /\ ModelOf(emitted[1]) = "Fineoffset-WH24" =>
            /\ loc.fn = "WH24"
            /\ Len(bits) \in 190..203
            /\ loc.bit_offset \in 47..60
        /\ (loc.fn = "WH24" /\ Len(bits) \in 204..215) =>
            ModelOf(emitted[1]) = "Fineoffset-WH65B"

\* the shortest row and the earliest sync word that give WH24
C16_Witness ==
    /\ Done /\ ret = 1 /\ loc.fn = "WH24"
    /\ Len(bits) = 190 /\ loc.bit_offset = 47
    /\ ModelOf(emitted[1]) = "Fineoffset-WH24"

====
